---- MODULE Spec2Model ----
(***************************************************************************)
(* Model of the bulk e-mail broadcaster.                                   *)
(*                                                                         *)
(* Spec      the dispatch engine: BulkMailer.send_async / send_blocking    *)
(*           (src/app/services/mailer.py) running on the asyncio event     *)
(*           loop: a FIFO ready queue, one task per recipient, a           *)
(*           Semaphore gate, gather() without return_exceptions and the    *)
(*           shutdown of asyncio.run().                                    *)
(* SpecForm  BroadcastForm (src/webapp/forms.py) and the compose route     *)
(*           (src/webapp/app.py) up to the call of send_bulk_email.        *)
(***************************************************************************)
EXTENDS Integers, Sequences, FiniteSets, TLC

\* ------------------------------------------------------------------ bounds
MaxRecipients == 3
MaxPad == 11
MaxTokens == 3
MaxOver == 1
MaxRequests == 4
MaxIndex == 2
MaxTicks == 4

\* ------------------------------------------------- constants of the program
DEFAULT_CONCURRENCY == 50
MIN_CONCURRENCY == 1
MAX_CONCURRENCY == 500
FORM_DEFAULT_CONCURRENCY == 50
CONCURRENCY_MAX_LENGTH == 10
MIN_SUBJECT_LENGTH == 3
MIN_BODY_LENGTH == 10

Addresses == <<"a@x.com", "b@x.com", "c@x.com", "d@x.com">>

\* Outcomes of one aiosmtplib.send call: it returns, or raises an exception
\* whose text holds 535 (authentication), a timeout, or anything else.
Outcomes == {"ok", "auth535", "timeout", "unknown"}

\* The values of the concurrency argument tried: <<>> is None, <<c>> is c.
ConcurrencyArgs == {<<>>, <<-1>>, <<0>>, <<1>>, <<2>>}

VARIABLES
    \* ---- dispatch engine
    recipients,     \* the recipients argument of send_async
    concurrency,    \* the concurrency argument: <<>> (None) or <<c>>
    has_hook,       \* whether a progress_hook is supplied
    mode,           \* "blocking": send_blocking; "async": send_async awaited
                    \* by a coroutine of a loop that keeps running
    transport,      \* what aiosmtplib.send does for the i-th recipient
    limit,          \* send_async's local limit (0 before it is computed)
    sem_value,      \* Semaphore._value
    sem_waiters,    \* Semaphore._waiters: records [task, fut]
    wstate,         \* position of worker i
    cancel_req,     \* task.cancel() was called on worker i
    ready,          \* the loop's FIFO queue of ready callbacks
    ntodo,          \* callbacks left in the current loop iteration
    stopping,       \* loop._stopping
    phase,          \* "idle", "running", "shutdown", "closed"
    gather,         \* the future of asyncio.gather: [state, nfinished, exc]
    main_pc,        \* send_async: "init", "await_gather", "returned", "raised"
    control,        \* "engine" while the call runs, "caller" once it is back
    send_calls,     \* number of aiosmtplib.send calls made for recipient i
    hook_calls,     \* the arguments of the progress_hook calls, in order
    auth_logged,    \* the authentication guidance was logged for attempt i
    \* ---- BroadcastForm and the compose route
    RECEIVER_EMAILS, \* the process-wide recipient list
    smtp,           \* SMTPSettings: the username and the password
    formdata,       \* the form submitted to /compose
    form,           \* the BroadcastForm object of the request
    form_pc,        \* "idle", "request", then how compose answered
    engine_arg,     \* concurrency passed to send_bulk_email (<<>> if none yet)
    engine_recipients, \* <<list>> passed to send_bulk_email (<<>> if none yet)
    \* ---- recipient routes, each request handled by a thread of its own
    del_req,        \* delete_recipient in progress: position, index, removed,
                    \* and the list as it was when the request began
    post_log,       \* what the last POST to /recipients submitted and did
    nreq,           \* number of requests received so far
    \* ---- login, session and rate limiting, as seen by one client
    admin,          \* ADMIN_USERNAME and ADMIN_PASSWORD as configured
    now,            \* datetime.now(), in seconds
    session,        \* the client's session: logged_in and login_time
    login_attempts, \* per IP: count and first_attempt (count 0: no entry)
    login_log,      \* the last request to /login and how it was answered
    handled,        \* the last request to another route that ran its view
    granted,        \* when the client last logged in, -1 if never or if the
                    \* client has logged out since
    streak,         \* per IP: failed logins counted from the first of them
    nticks,         \* number of times the clock has advanced
    \* ---- address normalisation and validation applied to one input
    txt_in,         \* the input: a text to normalise or an address to validate
    txt_out,        \* the results computed so far
    txt_pc          \* "idle", "input", "normalised", "renormalised", "validated"

engine_vars == <<recipients, concurrency, has_hook, mode, transport, limit,
                 sem_value, sem_waiters, wstate, cancel_req, ready, ntodo,
                 stopping, phase, gather, main_pc, control, send_calls,
                 hook_calls, auth_logged>>
form_vars == <<RECEIVER_EMAILS, smtp, formdata, form, form_pc, engine_arg,
               engine_recipients>>
text_vars == <<txt_in, txt_out, txt_pc>>
web_vars == <<del_req, post_log, nreq>>
auth_vars == <<admin, now, session, login_attempts, login_log, handled,
               granted, streak, nticks>>
vars == <<engine_vars, form_vars, text_vars, web_vars, auth_vars>>

\* ------------------------------------------------------------ small helpers
N == Len(recipients)
Workers == 1..N

Step(i) == [cb |-> "step", task |-> i]
GatherCb(i) == [cb |-> "gather_done", task |-> i]
MainCb == [cb |-> "main", task |-> 0]
StopCb == [cb |-> "stop", task |-> 0]

Min(a, b) == IF a < b THEN a ELSE b
Max(a, b) == IF a > b THEN a ELSE b

\* All orders in which the members of a set can be appended to the queue.
Orders(S) ==
    {s \in [1..Cardinality(S) -> S] : \A a, b \in 1..Cardinality(S) : s[a] = s[b] => a = b}

RemoveAt(s, k) == SubSeq(s, 1, k - 1) \o SubSeq(s, k + 1, Len(s))

Done(i) == wstate[i] \in {"sent", "failed", "cancelled"}

\* ------------------------------------------------------------ send_async
\* limit = max(1, concurrency or DEFAULT_CONCURRENCY): None and 0 are falsy.
Limit(c) ==
    Max(1, IF c = <<>> \/ c[1] = 0 THEN DEFAULT_CONCURRENCY ELSE c[1])

\* Variant: the gate never reports itself as taken.
locked_Never(v, ws) == FALSE

\* Semaphore.locked(): no free slot, or somebody is already queued.
locked(v, ws) ==
    v = 0 \/ \E k \in 1..Len(ws) : ws[k].fut # "cancelled"

\* Variant: the slot goes to the waiter queued last.
WakeUpNext_Lifo(s) ==
    LET idx == {k \in 1..Len(s.waiters) : s.waiters[k].fut = "pending"}
    IN  IF idx = {} THEN s
        ELSE LET k == CHOOSE m \in idx : \A o \in idx : m >= o
             IN  [value   |-> s.value - 1,
                  waiters |-> [s.waiters EXCEPT ![k].fut = "result"],
                  ready   |-> Append(s.ready, Step(s.waiters[k].task))]

\* Semaphore._wake_up_next() on s = [value, waiters, ready]: hands a slot to
\* the first waiter whose future is not done and schedules that task.
WakeUpNext(s) ==
    LET idx == {k \in 1..Len(s.waiters) : s.waiters[k].fut = "pending"}
    IN  IF idx = {} THEN s
        ELSE LET k == CHOOSE m \in idx : \A o \in idx : m <= o
             IN  [value   |-> s.value - 1,
                  waiters |-> [s.waiters EXCEPT ![k].fut = "result"],
                  ready   |-> Append(s.ready, Step(s.waiters[k].task))]

\* Variant: the slot is counted free again but no waiter is woken.
release_NoWake(s) == [s EXCEPT !.value = s.value + 1]

\* Semaphore.release(), the exit of "async with semaphore".
release(s) == WakeUpNext([s EXCEPT !.value = s.value + 1])

\* Variant: the slot is given back only after a send that succeeded.
ReleaseOnExit_SuccessOnly(outcome, s) == IF outcome = "ok" THEN release(s) ELSE s

\* worker: "async with semaphore" releases on every way out of its body,
\* whether _send_one returned or raised.
ReleaseOnExit(outcome, s) == release(s)

\* Variant: the tasks are created for the recipients in reverse order.
CreateTasks_Reversed(n) == [i \in 1..n |-> Step(n + 1 - i)]

\* gather(*(worker(a) for a in recipients)): one task per recipient, each
\* scheduled for its first step in the order of the sequence.
CreateTasks(n) == [i \in 1..n |-> Step(i)]

\* Variant: a timed-out call is tried once more.
SendOneRetries_OnTimeout(outcome) == IF outcome = "timeout" THEN 1 ELSE 0

\* _send_one re-raises a failure of aiosmtplib.send: no further call is made.
SendOneRetries(outcome) == 0

\* _send_one logs the app-password guidance when the error text holds 535.
AuthFailure(outcome) == outcome = "auth535"

\* Variant: the hook runs whether or not the send raised.
ProgressCalls_Always(hook, outcome, address) ==
    IF hook THEN <<address>> ELSE <<>>

\* worker: progress_hook(address) runs after _send_one returned, if supplied.
ProgressCalls(hook, outcome, address) ==
    IF hook /\ outcome = "ok" THEN <<address>> ELSE <<>>

\* Variant: gather of no awaitables leaves its future pending.
GatherStart_Pending(n) == "pending"

\* asyncio.gather(*workers): with no worker its future is already resolved.
GatherStart(n) == IF n = 0 THEN "result" ELSE "pending"

\* Variant: gather collects exceptions as results (return_exceptions=True).
GatherRaises_Never(ws) == FALSE

\* gather is called without return_exceptions: a worker that ended with an
\* exception settles the gather future with that exception.
GatherRaises(ws) == ws \in {"failed", "cancelled"}

WaiterOf(i) == CHOOSE k \in 1..Len(sem_waiters) : sem_waiters[k].task = i

ConfigUnchanged == UNCHANGED <<recipients, concurrency, has_hook, mode, transport>>

\* send_async up to the await of gather: one task per recipient, in order.
SendAsync ==
    /\ main_pc = "init" /\ phase = "idle" /\ control = "engine"
    /\ limit' = Limit(concurrency)
    /\ sem_value' = Limit(concurrency)
    /\ phase' = "running"
    /\ IF GatherStart(N) = "result"
       THEN /\ main_pc' = "returned"
            /\ gather' = [gather EXCEPT !.state = "result"]
            /\ IF mode = "blocking"
               THEN ready' = <<StopCb>> /\ UNCHANGED control
               ELSE ready' = <<>> /\ control' = "caller"
       ELSE /\ main_pc' = "await_gather"
            /\ ready' = CreateTasks(N)
            /\ UNCHANGED <<gather, control>>
    /\ UNCHANGED <<sem_waiters, wstate, cancel_req, ntodo, stopping,
                   send_calls, hook_calls, auth_logged>>
    /\ ConfigUnchanged /\ UNCHANGED <<form_vars, text_vars, web_vars, auth_vars>>

\* One iteration of the event loop begins: the transport calls whose I/O
\* completed are queued behind the callbacks already scheduled.
RunOnce ==
    /\ ntodo = 0 /\ ~stopping
    /\ phase \in {"running", "shutdown"}
    /\ phase = "shutdown" => \E i \in Workers : ~Done(i)
    /\ LET eligible == {i \in Workers : /\ wstate[i] = "transport"
                                        /\ ~cancel_req[i]
                                        /\ \A k \in 1..Len(ready) : ready[k] # Step(i)}
       IN  \E S \in SUBSET eligible : \E o \in Orders(S) :
              /\ ready \o [k \in 1..Cardinality(S) |-> Step(o[k])] # <<>>
              /\ ready' = ready \o [k \in 1..Cardinality(S) |-> Step(o[k])]
              /\ ntodo' = Len(ready')
    /\ UNCHANGED <<limit, sem_value, sem_waiters, wstate, cancel_req, stopping,
                   phase, gather, main_pc, control, send_calls, hook_calls,
                   auth_logged>>
    /\ ConfigUnchanged /\ UNCHANGED <<form_vars, text_vars, web_vars, auth_vars>>

Runs(cb) == ntodo > 0 /\ ready # <<>> /\ Head(ready) = cb

\* worker, first step: "async with semaphore" either takes a slot and calls
\* _send_one, or queues on the semaphore.
WorkerStart(i) ==
    /\ Runs(Step(i)) /\ wstate[i] = "created" /\ ~cancel_req[i]
    /\ ntodo' = ntodo - 1
    /\ ready' = Tail(ready)
    /\ IF ~locked(sem_value, sem_waiters)
       THEN /\ sem_value' = sem_value - 1
            /\ wstate' = [wstate EXCEPT ![i] = "transport"]
            /\ send_calls' = [send_calls EXCEPT ![i] = @ + 1]
            /\ UNCHANGED sem_waiters
       ELSE /\ sem_waiters' = Append(sem_waiters, [task |-> i, fut |-> "pending"])
            /\ wstate' = [wstate EXCEPT ![i] = "waiting"]
            /\ UNCHANGED <<sem_value, send_calls>>
    /\ UNCHANGED <<limit, cancel_req, stopping, phase, gather, main_pc, control,
                   hook_calls, auth_logged>>
    /\ ConfigUnchanged /\ UNCHANGED <<form_vars, text_vars, web_vars, auth_vars>>

\* worker, woken by a release: acquire() returns and _send_one is called.
WorkerAdmitted(i) ==
    /\ Runs(Step(i)) /\ wstate[i] = "waiting" /\ ~cancel_req[i]
    /\ ntodo' = ntodo - 1
    /\ LET s0 == [value   |-> sem_value,
                  waiters |-> RemoveAt(sem_waiters, WaiterOf(i)),
                  ready   |-> Tail(ready)]
           s1 == IF sem_value > 0 THEN WakeUpNext(s0) ELSE s0
       IN  /\ sem_value' = s1.value
           /\ sem_waiters' = s1.waiters
           /\ ready' = s1.ready
    /\ wstate' = [wstate EXCEPT ![i] = "transport"]
    /\ send_calls' = [send_calls EXCEPT ![i] = @ + 1]
    /\ UNCHANGED <<limit, cancel_req, stopping, phase, gather, main_pc, control,
                   hook_calls, auth_logged>>
    /\ ConfigUnchanged /\ UNCHANGED <<form_vars, text_vars, web_vars, auth_vars>>

\* worker, aiosmtplib.send finished: on success the hook runs, on failure
\* _send_one logs and re-raises; either way the slot is released and the task
\* is done.
WorkerSendDone(i) ==
    /\ Runs(Step(i)) /\ wstate[i] = "transport" /\ ~cancel_req[i]
    /\ ntodo' = ntodo - 1
    /\ LET out == transport[i]
           s1  == ReleaseOnExit(out, [value |-> sem_value, waiters |-> sem_waiters,
                                      ready |-> Tail(ready)])
       IN  /\ hook_calls' = hook_calls \o ProgressCalls(has_hook, out, recipients[i])
           /\ auth_logged' = [auth_logged EXCEPT ![i] = AuthFailure(out)]
           /\ send_calls' = [send_calls EXCEPT ![i] = @ + (IF out = "ok" THEN 0 ELSE SendOneRetries(out))]
           /\ wstate' = [wstate EXCEPT ![i] = IF out = "ok" THEN "sent" ELSE "failed"]
           /\ sem_value' = s1.value
           /\ sem_waiters' = s1.waiters
           /\ ready' = Append(s1.ready, GatherCb(i))
    /\ UNCHANGED <<limit, cancel_req, stopping, phase, gather, main_pc, control>>
    /\ ConfigUnchanged /\ UNCHANGED <<form_vars, text_vars, web_vars, auth_vars>>

\* worker resumed with CancelledError: it leaves acquire() or the transport
\* call; "except Exception" does not catch it and no hook runs.
WorkerCancelled(i) ==
    /\ Runs(Step(i)) /\ cancel_req[i] /\ ~Done(i)
    /\ ntodo' = ntodo - 1
    /\ LET s0 == [value |-> sem_value, waiters |-> sem_waiters, ready |-> Tail(ready)]
           s1 == IF wstate[i] = "transport" THEN release(s0)
                 ELSE IF wstate[i] = "waiting"
                 THEN LET k  == WaiterOf(i)
                          sr == [s0 EXCEPT !.waiters = RemoveAt(sem_waiters, k)]
                      IN  IF sem_waiters[k].fut = "result"
                          THEN WakeUpNext([sr EXCEPT !.value = sem_value + 1])
                          ELSE sr
                 ELSE s0
       IN  /\ sem_value' = s1.value
           /\ sem_waiters' = s1.waiters
           /\ ready' = Append(s1.ready, GatherCb(i))
    /\ wstate' = [wstate EXCEPT ![i] = "cancelled"]
    /\ UNCHANGED <<limit, cancel_req, stopping, phase, gather, main_pc, control,
                   send_calls, hook_calls, auth_logged>>
    /\ ConfigUnchanged /\ UNCHANGED <<form_vars, text_vars, web_vars, auth_vars>>

\* gather's callback for a finished worker: without return_exceptions the
\* first exception settles the gather future at once.
GatherDone(i) ==
    /\ Runs(GatherCb(i))
    /\ ntodo' = ntodo - 1
    /\ IF gather.state # "pending"
       THEN /\ gather' = [gather EXCEPT !.nfinished = @ + 1]
            /\ ready' = Tail(ready)
       ELSE IF GatherRaises(wstate[i])
       THEN /\ gather' = [state |-> "exception", nfinished |-> gather.nfinished + 1,
                            exc |-> IF wstate[i] = "failed" THEN transport[i]
                                    ELSE "cancelled"]
            /\ ready' = Append(Tail(ready), MainCb)
       ELSE IF gather.nfinished + 1 = N
       THEN /\ gather' = [gather EXCEPT !.state = "result", !.nfinished = @ + 1]
            /\ ready' = Append(Tail(ready), MainCb)
       ELSE /\ gather' = [gather EXCEPT !.nfinished = @ + 1]
            /\ ready' = Tail(ready)
    /\ UNCHANGED <<limit, sem_value, sem_waiters, wstate, cancel_req, stopping,
                   phase, main_pc, control, send_calls, hook_calls, auth_logged>>
    /\ ConfigUnchanged /\ UNCHANGED <<form_vars, text_vars, web_vars, auth_vars>>

\* send_async resumes from "await asyncio.gather(...)": it raises the first
\* exception or logs completion and returns.
MainResume ==
    /\ Runs(MainCb) /\ main_pc = "await_gather"
    /\ ntodo' = ntodo - 1
    /\ main_pc' = IF gather.state = "exception" THEN "raised" ELSE "returned"
    /\ IF mode = "blocking"
       THEN ready' = Append(Tail(ready), StopCb) /\ UNCHANGED control
       ELSE ready' = Tail(ready) /\ control' = "caller"
    /\ UNCHANGED <<limit, sem_value, sem_waiters, wstate, cancel_req, stopping,
                   phase, gather, send_calls, hook_calls, auth_logged>>
    /\ ConfigUnchanged /\ UNCHANGED <<form_vars, text_vars, web_vars, auth_vars>>

\* asyncio.run: the main task is done, the loop stops after this iteration.
LoopStop ==
    /\ Runs(StopCb)
    /\ ntodo' = ntodo - 1
    /\ ready' = Tail(ready)
    /\ stopping' = TRUE
    /\ UNCHANGED <<limit, sem_value, sem_waiters, wstate, cancel_req, phase,
                   gather, main_pc, control, send_calls, hook_calls, auth_logged>>
    /\ ConfigUnchanged /\ UNCHANGED <<form_vars, text_vars, web_vars, auth_vars>>

\* asyncio.run, after the loop stopped: every task still alive is cancelled.
\* A task suspended on a future is rescheduled with CancelledError.
CancelAllTasks ==
    /\ phase = "running" /\ stopping /\ ntodo = 0
    /\ stopping' = FALSE
    /\ ntodo' = 0
    /\ LET to_cancel == {i \in Workers : ~Done(i)}
           suspended == {i \in to_cancel : \A k \in 1..Len(ready) : ready[k] # Step(i)}
       IN  IF to_cancel = {}
           THEN /\ phase' = "closed"
                /\ control' = "caller"
                /\ ready' = <<>>
                /\ UNCHANGED <<cancel_req, sem_waiters>>
           ELSE /\ phase' = "shutdown"
                /\ cancel_req' = [i \in Workers |-> cancel_req[i] \/ i \in to_cancel]
                /\ sem_waiters' = [k \in 1..Len(sem_waiters) |->
                                     IF sem_waiters[k].fut = "pending"
                                     THEN [sem_waiters[k] EXCEPT !.fut = "cancelled"]
                                     ELSE sem_waiters[k]]
                /\ \E o \in Orders(suspended) :
                      ready' = ready \o [k \in 1..Cardinality(suspended) |-> Step(o[k])]
                /\ UNCHANGED control
    /\ UNCHANGED <<limit, sem_value, wstate, gather, main_pc, send_calls,
                   hook_calls, auth_logged>>
    /\ ConfigUnchanged /\ UNCHANGED <<form_vars, text_vars, web_vars, auth_vars>>

\* asyncio.run, end of shutdown: all tasks are done, the loop is closed and
\* send_blocking returns or re-raises to its caller.
LoopClose ==
    /\ phase = "shutdown" /\ ntodo = 0
    /\ \A i \in Workers : Done(i)
    /\ phase' = "closed"
    /\ control' = "caller"
    /\ ready' = <<>>
    /\ UNCHANGED <<limit, sem_value, sem_waiters, wstate, cancel_req, ntodo,
                   stopping, gather, main_pc, send_calls, hook_calls, auth_logged>>
    /\ ConfigUnchanged /\ UNCHANGED <<form_vars, text_vars, web_vars, auth_vars>>


\* ------------------------------------------- BroadcastForm and /compose
\* Text is a sequence of one-character strings.
Digits == {"0", "1", "2", "3", "4", "5", "6", "7", "8", "9"}
DigitVal(ch) ==
    CASE ch = "0" -> 0 [] ch = "1" -> 1 [] ch = "2" -> 2 [] ch = "3" -> 3
      [] ch = "4" -> 4 [] ch = "5" -> 5 [] ch = "6" -> 6 [] ch = "7" -> 7
      [] ch = "8" -> 8 [] ch = "9" -> 9

\* str.strip(): leading and trailing white space removed.
Whitespace == {" ", "\n", "\t"}
RECURSIVE LStrip(_)
LStrip(s) == IF s # <<>> /\ Head(s) \in Whitespace THEN LStrip(Tail(s)) ELSE s
RECURSIVE RStrip(_)
RStrip(s) == IF s # <<>> /\ s[Len(s)] \in Whitespace THEN RStrip(SubSeq(s, 1, Len(s) - 1)) ELSE s
Strip(s) == RStrip(LStrip(s))

\* BaseForm.sanitize_input: strip, then keep the first max_length characters.
sanitize_input(value, max_length) ==
    LET sanitized == Strip(value)
    IN  IF max_length # 0 /\ Len(sanitized) > max_length
        THEN SubSeq(sanitized, 1, max_length)
        ELSE sanitized

\* int(text): blanks around, an optional sign, then one or more digits.
Unsigned(s) ==
    LET t == Strip(s)
    IN  IF t # <<>> /\ Head(t) \in {"-", "+"} THEN Tail(t) ELSE t
IsInt(s) ==
    /\ Unsigned(s) # <<>>
    /\ \A k \in 1..Len(Unsigned(s)) : Unsigned(s)[k] \in Digits
RECURSIVE Magnitude(_)
Magnitude(ds) ==
    IF ds = <<>> THEN 0 ELSE 10 * Magnitude(SubSeq(ds, 1, Len(ds) - 1)) + DigitVal(ds[Len(ds)])
IntValue(s) ==
    IF Head(Strip(s)) = "-" THEN 0 - Magnitude(Unsigned(s)) ELSE Magnitude(Unsigned(s))

\* BroadcastForm.__init__: the raw concurrency text, "50" when nothing is left.
ConcurrencyRaw(fd) ==
    LET raw == sanitize_input(fd.concurrency, CONCURRENCY_MAX_LENGTH)
    IN  IF raw = <<>> THEN <<"5", "0">> ELSE raw

\* Variant: the upper limit is not enforced.
ValidateConcurrency_NoMax(raw) ==
    IF IsInt(raw)
    THEN IF IntValue(raw) < MIN_CONCURRENCY
         THEN [concurrency |-> MIN_CONCURRENCY, error |-> FALSE, warning |-> TRUE]
         ELSE [concurrency |-> IntValue(raw), error |-> FALSE, warning |-> FALSE]
    ELSE [concurrency |-> FORM_DEFAULT_CONCURRENCY, error |-> TRUE, warning |-> FALSE]

\* BroadcastForm.validate, "Validate concurrency": the value kept in
\* form.concurrency and the field's error / warning.
ValidateConcurrency(raw) ==
    IF IsInt(raw)
    THEN LET concurrency_val == IntValue(raw)
         IN  IF concurrency_val < MIN_CONCURRENCY
             THEN [concurrency |-> MIN_CONCURRENCY, error |-> FALSE, warning |-> TRUE]
             ELSE IF concurrency_val > MAX_CONCURRENCY
             THEN [concurrency |-> MAX_CONCURRENCY, error |-> FALSE, warning |-> TRUE]
             ELSE [concurrency |-> concurrency_val, error |-> FALSE, warning |-> FALSE]
    ELSE [concurrency |-> FORM_DEFAULT_CONCURRENCY, error |-> TRUE, warning |-> FALSE]

\* BroadcastForm() before any field is read.
NewForm ==
    [subject_len |-> 0, body_len |-> 0, concurrency_raw |-> <<>>,
     concurrency |-> FORM_DEFAULT_CONCURRENCY, errors |-> {}, warnings |-> {}]

\* BroadcastForm(formdata) followed by validate(): the form object afterwards.
\* Subject and body are kept by their length after sanitising; the warnings
\* that depend on their wording are left out.
Validated(fd) ==
    LET raw == ConcurrencyRaw(fd)
        c   == ValidateConcurrency(raw)
    IN  [subject_len     |-> fd.subject_len,
         body_len        |-> fd.body_len,
         concurrency_raw |-> raw,
         concurrency     |-> c.concurrency,
         errors          |-> (IF fd.subject_len < MIN_SUBJECT_LENGTH THEN {"subject"} ELSE {})
                             \cup (IF fd.body_len < MIN_BODY_LENGTH THEN {"body"} ELSE {})
                             \cup (IF c.error THEN {"concurrency"} ELSE {}),
         warnings        |-> IF c.warning THEN {"concurrency"} ELSE {}]

\* The concurrency fields submitted: a short text behind 0..MaxPad zeros.
Zeros(k) == [j \in 1..k |-> "0"]
ConcurrencyTexts ==
    {<<>>, <<"7">>, <<"1", "0", "0">>, <<"5", "0", "0">>, <<"5", "0", "1">>,
     <<"-", "3">>, <<"x">>, <<" ", "7", " ">>, <<"7", " ", "x">>}
ConcurrencyFields ==
    {Zeros(k) \o t : k \in 0..MaxPad, t \in ConcurrencyTexts}

\* ------------------------------------- src/webapp/forms.py: address lists
MAX_ADDRESSES == 1000
MAX_EMAIL_LENGTH == 254
\* EMAIL_RE: a label is one character, then up to 61 and one more.
LABEL_MIDDLE_LENGTH == 61
MAX_LABEL_LENGTH == LABEL_MIDDLE_LENGTH + 2

LowerLetters == <<"a", "b", "c", "d", "e", "f", "g", "h", "i", "j", "k", "l", "m">>
                \o <<"n", "o", "p", "q", "r", "s", "t", "u", "v", "w", "x", "y", "z">>
UpperLetters == <<"A", "B", "C", "D", "E", "F", "G", "H", "I", "J", "K", "L", "M">>
                \o <<"N", "O", "P", "Q", "R", "S", "T", "U", "V", "W", "X", "Y", "Z">>
Range(f) == {f[k] : k \in DOMAIN f}
Alnum == Range(LowerLetters) \cup Range(UpperLetters) \cup Digits

\* Variant: the case of every letter is swapped.
LowerCh_Swap(ch) ==
    IF ch \in Range(UpperLetters)
    THEN LowerLetters[CHOOSE k \in 1..26 : UpperLetters[k] = ch]
    ELSE IF ch \in Range(LowerLetters)
    THEN UpperLetters[CHOOSE k \in 1..26 : LowerLetters[k] = ch]
    ELSE ch

\* str.lower(), one character.
LowerCh(ch) ==
    IF ch \in Range(UpperLetters)
    THEN LowerLetters[CHOOSE k \in 1..26 : UpperLetters[k] = ch]
    ELSE ch
Lower(s) == [k \in 1..Len(s) |-> LowerCh(s[k])]

\* "p in s" for two texts.
Contains(s, p) == \E k \in 0..(Len(s) - Len(p)) : SubSeq(s, k + 1, k + Len(p)) = p

\* re.split(r"[,;\n\s]+", text): the pieces between runs of separators, an
\* empty piece where the text starts or ends with a separator.
Separators == {",", ";"} \cup Whitespace
RECURSIVE Split(_)
Split(text) ==
    IF \A k \in 1..Len(text) : text[k] \notin Separators
    THEN <<text>>
    ELSE LET k == CHOOSE k \in 1..Len(text) :
                      /\ text[k] \in Separators
                      /\ \A j \in 1..(k - 1) : text[j] \notin Separators
             rest == SubSeq(text, k, Len(text))
             n == IF \A j \in 1..Len(rest) : rest[j] \in Separators
                  THEN Len(rest)
                  ELSE (CHOOSE j \in 1..Len(rest) :
                            /\ rest[j] \notin Separators
                            /\ \A i \in 1..(j - 1) : rest[i] \in Separators) - 1
         IN  <<SubSeq(text, 1, k - 1)>> \o Split(SubSeq(rest, n + 1, Len(rest)))

\* EMAIL_RE: the characters of the local part (the grave accent, which no
\* text below holds, is left out).
LocalChars ==
    Alnum \cup {".", "!", "#", "$", "%", "&", "'", "*", "+", "/", "=", "?",
                "^", "_", "{", "|", "}", "~", "-"}

\* EMAIL_RE: labels of 1..63 characters joined by dots, each starting and
\* ending with a letter or digit, letters, digits and hyphens in between.
DomainRe(d) ==
    /\ d # <<>>
    /\ \A k \in 1..Len(d) : d[k] \in Alnum \cup {"-", "."}
    /\ d[1] \in Alnum /\ d[Len(d)] \in Alnum
    /\ \A k \in 1..Len(d) : d[k] = "." => (d[k - 1] \in Alnum /\ d[k + 1] \in Alnum)
    /\ \A k \in 1..(Len(d) - MAX_LABEL_LENGTH) :
           \E j \in k..(k + MAX_LABEL_LENGTH) : d[j] = "."

\* EMAIL_RE anchored at both ends: local part, "@", domain.
EmailReCore(s) ==
    \E p \in 2..(Len(s) - 1) :
        /\ s[p] = "@"
        /\ \A k \in 1..(p - 1) : s[k] \in LocalChars
        /\ DomainRe(SubSeq(s, p + 1, Len(s)))

\* EMAIL_RE.match(s): "$" also matches before one newline ending the text.
EMAIL_RE(s) ==
    \/ EmailReCore(s)
    \/ s # <<>> /\ s[Len(s)] = "\n" /\ EmailReCore(SubSeq(s, 1, Len(s) - 1))

DISPOSABLE_DOMAINS ==
    {<<"t", "e", "m", "p", "m", "a", "i", "l", ".", "c", "o", "m">>,
     <<"t", "h", "r", "o", "w", "a", "w", "a", "y", ".", "e", "m", "a", "i", "l">>,
     <<"g", "u", "e", "r", "r", "i", "l", "l", "a", "m", "a", "i", "l", ".", "c", "o", "m">>,
     <<"1", "0", "m", "i", "n", "u", "t", "e", "m", "a", "i", "l", ".", "c", "o", "m">>,
     <<"m", "a", "i", "l", "i", "n", "a", "t", "o", "r", ".", "c", "o", "m">>}

\* email.split at the "@" sign of a text holding exactly one.
AtIndex(email) == CHOOSE p \in 1..Len(email) : email[p] = "@"
LocalPart(email) == SubSeq(email, 1, AtIndex(email) - 1)
DomainPart(email) == SubSeq(email, AtIndex(email) + 1, Len(email))

None == "None"
DotDot == <<".", ".">>

\* Variant: consecutive dots are not looked for.
validate_email_NoDotDot(email, block_disposable) ==
    IF Len(email) > MAX_EMAIL_LENGTH
    THEN [valid |-> FALSE, reason |-> "Email too long"]
    ELSE IF ~EMAIL_RE(email)
    THEN [valid |-> FALSE, reason |-> "Invalid email format"]
    ELSE IF block_disposable /\ Lower(DomainPart(email)) \in DISPOSABLE_DOMAINS
    THEN [valid |-> FALSE, reason |-> "Disposable email domain not allowed"]
    ELSE IF LocalPart(email) = <<>> \/ DomainPart(email) = <<>>
    THEN [valid |-> FALSE, reason |-> "Missing local or domain part"]
    ELSE IF ~Contains(DomainPart(email), <<".">>)
    THEN [valid |-> FALSE, reason |-> "Domain must have a TLD"]
    ELSE [valid |-> TRUE, reason |-> None]

\* RecipientForm.validate_email: (is_valid, error_message).
validate_email(email, block_disposable) ==
    IF Len(email) > MAX_EMAIL_LENGTH
    THEN [valid |-> FALSE, reason |-> "Email too long"]
    ELSE IF ~EMAIL_RE(email)
    THEN [valid |-> FALSE, reason |-> "Invalid email format"]
    ELSE IF block_disposable /\ Lower(DomainPart(email)) \in DISPOSABLE_DOMAINS
    THEN [valid |-> FALSE, reason |-> "Disposable email domain not allowed"]
    ELSE IF Contains(email, DotDot)
    THEN [valid |-> FALSE, reason |-> "Consecutive dots not allowed"]
    ELSE IF LocalPart(email) = <<>> \/ DomainPart(email) = <<>>
    THEN [valid |-> FALSE, reason |-> "Missing local or domain part"]
    ELSE IF ~Contains(DomainPart(email), <<".">>)
    THEN [valid |-> FALSE, reason |-> "Domain must have a TLD"]
    ELSE [valid |-> TRUE, reason |-> None]

\* A form field that may be missing: no value, or one text.
FieldBool(f) == IF f = {} THEN TRUE ELSE (CHOOSE v \in f : TRUE) # <<>>

\* RecipientForm.__init__.
RecipientForm(fd) ==
    [addresses        |-> sanitize_input(fd.addresses, 0),
     block_disposable |-> FieldBool(fd.block_disposable),
     deduplicate      |-> FieldBool(fd.deduplicate)]

\* Variant: duplicates are looked for before the token is lower-cased.
RECURSIVE FlattenLoop_RawSeen(_, _, _, _)
FlattenLoop_RawSeen(tokens, deduplicate, addresses, seen) ==
    IF tokens = <<>> THEN addresses
    ELSE LET token == Lower(Strip(Head(tokens)))
         IN  IF token = <<>>
             THEN FlattenLoop_RawSeen(Tail(tokens), deduplicate, addresses, seen)
             ELSE IF deduplicate /\ Head(tokens) \in seen
             THEN FlattenLoop_RawSeen(Tail(tokens), deduplicate, addresses, seen)
             ELSE FlattenLoop_RawSeen(Tail(tokens), deduplicate, Append(addresses, token),
                                      IF deduplicate THEN seen \cup {Head(tokens)} ELSE seen)

\* RecipientForm.flatten_addresses, the loop over the tokens.
RECURSIVE FlattenLoop(_, _, _, _)
FlattenLoop(tokens, deduplicate, addresses, seen) ==
    IF tokens = <<>> THEN addresses
    ELSE LET token == Lower(Strip(Head(tokens)))
         IN  IF token = <<>>
             THEN FlattenLoop(Tail(tokens), deduplicate, addresses, seen)
             ELSE IF deduplicate /\ token \in seen
             THEN FlattenLoop(Tail(tokens), deduplicate, addresses, seen)
             ELSE FlattenLoop(Tail(tokens), deduplicate, Append(addresses, token),
                              IF deduplicate THEN seen \cup {token} ELSE seen)

\* Variant of flatten_addresses built on the loop above that compares raw tokens.
flatten_addresses_RawSeen(f) == FlattenLoop_RawSeen(Split(f.addresses), f.deduplicate, <<>>, {})

\* RecipientForm.flatten_addresses.
flatten_addresses(f) == FlattenLoop(Split(f.addresses), f.deduplicate, <<>>, {})

\* validate_email_address.
validate_email_address(email) == EMAIL_RE(Lower(Strip(email)))

\* parse_email_list, the loop over the tokens.
RECURSIVE ParseLoop(_, _, _, _)
ParseLoop(tokens, deduplicate, emails, seen) ==
    IF tokens = <<>> THEN emails
    ELSE LET email == Lower(Strip(Head(tokens)))
         IN  IF email # <<>> /\ validate_email_address(email)
                /\ (~deduplicate \/ email \notin seen)
             THEN ParseLoop(Tail(tokens), deduplicate, Append(emails, email),
                            IF deduplicate THEN seen \cup {email} ELSE seen)
             ELSE ParseLoop(Tail(tokens), deduplicate, emails, seen)

\* parse_email_list.
parse_email_list(text, deduplicate) == ParseLoop(Split(text), deduplicate, <<>>, {})


\* ---------------------------- normalising a text and validating an address
\* The texts submitted: up to MaxTokens tokens, one separator between them,
\* with or without white space around the whole.
RECURSIVE Join(_, _)
Join(seq, sep) ==
    IF seq = <<>> THEN <<>>
    ELSE IF Len(seq) = 1 THEN seq[1]
    ELSE seq[1] \o sep \o Join(Tail(seq), sep)
Rep(ch, n) == [k \in 1..n |-> ch]

A_AT_X == <<"a", "@", "x", ".", "c", "o", "m">>
UPPER_A_AT_X == <<"A", "@", "X", ".", "c", "o", "m">>
B_AT_X == <<"b", "@", "x", ".", "c", "o", "m">>
NOT_AN_EMAIL == <<"n", "o", "t", "-", "a", "n", "-", "e", "m", "a", "i", "l">>
DOUBLE_AT == <<"a", "@", "@", "b", ".", "c", "o", "m">>
DOUBLE_DOT == <<"a", ".", ".", "b", "@", "c", ".", "c", "o", "m">>
AT_X_COM == <<"@", "x", ".", "c", "o", "m">>
DOT_COM == <<".", "c", "o", "m">>
THROWAWAY == <<"c", "@", "M", "a", "i", "l", "i", "n", "a", "t", "o", "r", ".", "c", "o", "m">>

TokenPool == {A_AT_X, UPPER_A_AT_X, B_AT_X, NOT_AN_EMAIL, DOUBLE_DOT}
TokenLists == UNION {[1..n -> TokenPool] : n \in 0..MaxTokens}
TokenSeparators == {<<",">>, <<" ">>, <<";", "\n">>, <<" ", ",", "\t">>}
Texts ==
    {pad[1] \o Join(ts, sep) \o pad[2] :
        ts \in TokenLists, sep \in TokenSeparators,
        pad \in {<< <<>>, <<>> >>, << <<"\n">>, <<" ">> >>}}
Flags == {{}, {<<>>}, {<<"o", "n">>}}
Joiners == {<<",">>, <<" ">>, <<";", " ">>}

\* The addresses validated: the short ones, and those whose length or whose
\* label length is within MaxOver of the limit.
EmailTexts ==
    {A_AT_X, UPPER_A_AT_X, NOT_AN_EMAIL, DOUBLE_AT, DOUBLE_DOT, AT_X_COM, THROWAWAY,
     <<>>, <<"a", "@">>, <<"@">>, A_AT_X \o <<"\n">>, A_AT_X \o <<" ">>,
     <<"a", "@", "l", "o", "c", "a", "l", "h", "o", "s", "t">>,
     <<"a", "@", "x", ".", ".", "c", "o", "m">>,
     <<"a", "@", "-", "x", ".", "c", "o", "m">>,
     <<"a", "@", "x", "-", ".", "c", "o", "m">>,
     <<"a", "@", "x", ".", "c", "o", "m", ".">>,
     <<"a", "@", ".", "x", ".", "c", "o", "m">>,
     <<"a", ".", "@", "x", ".", "c", "o", "m">>,
     <<".", "a", "@", "x", ".", "c", "o", "m">>,
     <<"a", "@", "b", "@", "x", ".", "c", "o", "m">>,
     <<"a", " ", "b", "@", "x", ".", "c", "o", "m">>,
     <<"a", "+", "b", "@", "x", "-", "y", ".", "c", "o", ".", "u", "k">>,
     <<"a", "@", "x", "_", "y", ".", "c", "o", "m">>}
    \cup {Rep("a", MAX_EMAIL_LENGTH - Len(AT_X_COM) + d) \o AT_X_COM : d \in (0 - MaxOver)..MaxOver}
    \cup {<<"a", "@">> \o Rep("b", MAX_LABEL_LENGTH + d) \o DOT_COM : d \in (0 - MaxOver)..MaxOver}

NoInput == [kind |-> "none", text |-> <<>>, deduplicate |-> {}, joiner |-> <<>>,
            email |-> <<>>, block_disposable |-> FALSE]
NoOutput == [flat |-> <<>>, parsed |-> <<>>, flat2 |-> <<>>, parsed2 |-> <<>>,
             valid |-> FALSE, reason |-> None]
TextIdle ==
    /\ txt_in = NoInput
    /\ txt_out = NoOutput
    /\ txt_pc = "idle"

\* RecipientForm({"addresses": text, "deduplicate": flag}).flatten_addresses()
\* and parse_email_list(text, deduplicate) on the same text.
Normalise ==
    /\ txt_pc = "input" /\ txt_in.kind = "text"
    /\ txt_out' = [txt_out EXCEPT
           !.flat = flatten_addresses(RecipientForm(
                        [addresses |-> txt_in.text, block_disposable |-> {},
                         deduplicate |-> txt_in.deduplicate])),
           !.parsed = parse_email_list(txt_in.text, FieldBool(txt_in.deduplicate))]
    /\ txt_pc' = "normalised"
    /\ UNCHANGED <<txt_in, engine_vars, form_vars, web_vars, auth_vars>>

\* The two results joined into texts again and normalised once more.
Renormalise ==
    /\ txt_pc = "normalised"
    /\ txt_out' = [txt_out EXCEPT
           !.flat2 = flatten_addresses(RecipientForm(
                         [addresses |-> Join(txt_out.flat, txt_in.joiner),
                          block_disposable |-> {},
                          deduplicate |-> txt_in.deduplicate])),
           !.parsed2 = parse_email_list(Join(txt_out.parsed, txt_in.joiner),
                                        FieldBool(txt_in.deduplicate))]
    /\ txt_pc' = "renormalised"
    /\ UNCHANGED <<txt_in, engine_vars, form_vars, web_vars, auth_vars>>

\* RecipientForm.validate_email(email) on a form with the given flag.
ValidateEmail ==
    /\ txt_pc = "input" /\ txt_in.kind = "email"
    /\ LET r == validate_email(txt_in.email, txt_in.block_disposable)
       IN  txt_out' = [txt_out EXCEPT !.valid = r.valid, !.reason = r.reason]
    /\ txt_pc' = "validated"
    /\ UNCHANGED <<txt_in, engine_vars, form_vars, web_vars, auth_vars>>

\* ------------------------------------------ src/webapp/app.py: compose
\* The placeholder tests of compose on the SMTP settings.
MIN_APP_PASSWORD_LENGTH == 16
YOUR_EMAIL == <<"y", "o", "u", "r", "_", "e", "m", "a", "i", "l">>
YOUR_APP_PASSWORD == <<"y", "o", "u", "r", "_", "a", "p", "p", "_", "p", "a", "s", "s", "w", "o", "r", "d">>
\* compose: the test on smtp_settings.username.
UsernamePlaceholder(username) ==
    Contains(Lower(username), YOUR_EMAIL) \/ "@" \notin Range(username)

\* Variant: the length of the password is not looked at.
PasswordPlaceholder_NoLength(password) ==
    Contains(Lower(password), YOUR_APP_PASSWORD)

\* compose: the test on smtp_settings.password.
PasswordPlaceholder(password) ==
    Contains(Lower(password), YOUR_APP_PASSWORD) \/ Len(password) < MIN_APP_PASSWORD_LENGTH

\* compose: "if not RECEIVER_EMAILS" redirects before a form is built.
ComposeNoRecipients ==
    /\ form_pc = "request"
    /\ RECEIVER_EMAILS = <<>>
    /\ form_pc' = "redirected"
    /\ UNCHANGED <<RECEIVER_EMAILS, smtp, formdata, form, engine_arg, engine_recipients>>
    /\ UNCHANGED <<engine_vars, text_vars, web_vars, auth_vars>>

\* compose: the list is not empty; the request's form is read next.
ComposeHasRecipients ==
    /\ form_pc = "request"
    /\ RECEIVER_EMAILS # <<>>
    /\ form_pc' = "checked"
    /\ UNCHANGED <<RECEIVER_EMAILS, smtp, formdata, form, engine_arg, engine_recipients>>
    /\ UNCHANGED <<engine_vars, text_vars, web_vars, auth_vars>>

\* compose, POST: form.validate() found an error; the page is shown again.
ComposeInvalid ==
    /\ form_pc = "checked"
    /\ Validated(formdata).errors # {}
    /\ form' = Validated(formdata)
    /\ form_pc' = "invalid"
    /\ UNCHANGED <<RECEIVER_EMAILS, smtp, formdata, engine_arg, engine_recipients>>
    /\ UNCHANGED <<engine_vars, text_vars, web_vars, auth_vars>>

\* compose, POST: the form is valid but the SMTP settings are placeholders.
ComposeNotConfigured ==
    /\ form_pc = "checked"
    /\ Validated(formdata).errors = {}
    /\ UsernamePlaceholder(smtp.username) \/ PasswordPlaceholder(smtp.password)
    /\ form' = Validated(formdata)
    /\ form_pc' = "not_configured"
    /\ UNCHANGED <<RECEIVER_EMAILS, smtp, formdata, engine_arg, engine_recipients>>
    /\ UNCHANGED <<engine_vars, text_vars, web_vars, auth_vars>>

\* compose, POST: send_bulk_email(..., recipients=RECEIVER_EMAILS,
\* concurrency=form.concurrency), the list as it is at this moment.
ComposeSend ==
    /\ form_pc = "checked"
    /\ Validated(formdata).errors = {}
    /\ ~UsernamePlaceholder(smtp.username) /\ ~PasswordPlaceholder(smtp.password)
    /\ form' = Validated(formdata)
    /\ engine_arg' = <<Validated(formdata).concurrency>>
    /\ engine_recipients' = <<RECEIVER_EMAILS>>
    /\ form_pc' = "dispatched"
    /\ UNCHANGED <<RECEIVER_EMAILS, smtp, formdata>>
    /\ UNCHANGED <<engine_vars, text_vars, web_vars, auth_vars>>

\* ------------------------------------- src/webapp/app.py: recipient routes
\* Variant: only the first address is validated.
RecipientFormValidate_FirstOnly(f) ==
    IF f.addresses = <<>> THEN FALSE
    ELSE LET cleaned == flatten_addresses(f)
         IN  IF cleaned = <<>> THEN FALSE
             ELSE IF Len(cleaned) > MAX_ADDRESSES THEN FALSE
             ELSE validate_email(cleaned[1], f.block_disposable).valid

\* RecipientForm.validate: no address, or an address that fails
\* validate_email, gives False.
RecipientFormValidate(f) ==
    IF f.addresses = <<>> THEN FALSE
    ELSE LET cleaned == flatten_addresses(f)
         IN  IF cleaned = <<>> THEN FALSE
             ELSE IF Len(cleaned) > MAX_ADDRESSES THEN FALSE
             ELSE \A k \in 1..Len(cleaned) :
                      validate_email(cleaned[k], f.block_disposable).valid

\* Variant: the form is not validated first.
RecipientsAdded_Unchecked(f) == flatten_addresses(f)

\* recipients, POST: the addresses handed to _merge_recipients.
RecipientsAdded(f) == IF RecipientFormValidate(f) THEN flatten_addresses(f) ELSE <<>>

\* _merge_recipients: the list after the addresses not yet seen are appended.
RECURSIVE MergeLoop(_, _, _)
MergeLoop(current, addresses, seen) ==
    IF addresses = <<>> THEN current
    ELSE LET address == Head(addresses)
             key == Strip(Lower(address))
         IN  IF key # <<>> /\ key \notin seen
             THEN MergeLoop(Append(current, Strip(address)), Tail(addresses), seen \cup {key})
             ELSE MergeLoop(current, Tail(addresses), seen)
merge_recipients(current, addresses) ==
    MergeLoop(current, addresses, {Strip(Lower(current[k])) : k \in 1..Len(current)})

\* list.insert(index, x), index counted from 0; past the end it appends.
InsertAt(seq, index, x) ==
    LET i == Min(index, Len(seq))
    IN  SubSeq(seq, 1, i) \o <<x>> \o SubSeq(seq, i + 1, Len(seq))

\* The forms posted to /recipients.
RecipientPosts ==
    {[addresses |-> A_AT_X, block_disposable |-> {}, deduplicate |-> {}],
     [addresses |-> UPPER_A_AT_X \o <<",", " ">> \o B_AT_X \o <<" ">>,
      block_disposable |-> {}, deduplicate |-> {}],
     [addresses |-> B_AT_X \o <<";">> \o NOT_AN_EMAIL, block_disposable |-> {}, deduplicate |-> {}],
     [addresses |-> THROWAWAY, block_disposable |-> {}, deduplicate |-> {}],
     [addresses |-> THROWAWAY, block_disposable |-> {<<>>}, deduplicate |-> {}],
     [addresses |-> <<" ">>, block_disposable |-> {}, deduplicate |-> {}],
     [addresses |-> DOUBLE_DOT \o <<"\n">> \o A_AT_X, block_disposable |-> {}, deduplicate |-> {}],
     [addresses |-> B_AT_X \o <<" ">> \o B_AT_X, block_disposable |-> {}, deduplicate |-> {<<>>}]}

\* The SMTP settings the program is started with.
SmtpUsernames ==
    {YOUR_EMAIL \o <<"@", "g", "m", "a", "i", "l", ".", "c", "o", "m">>, <<"Y", "o", "u", "r", "_", "E", "m", "a", "i", "l", "@", "x", ".", "c", "o", "m">>,
     <<"m", "e", "@", "x", ".", "c", "o", "m">>, <<"a", "d", "m", "i", "n">>}
SmtpPasswords ==
    {YOUR_APP_PASSWORD, <<"Y", "o", "u", "r", "_", "A", "p", "p", "_", "P", "a", "s", "s", "w", "o", "r", "d", "!">>,
     Rep("p", MIN_APP_PASSWORD_LENGTH), Rep("p", MIN_APP_PASSWORD_LENGTH - 1)}

\* The compose forms posted while the recipient routes are in use.
WebForms ==
    {[subject_len |-> MIN_SUBJECT_LENGTH, body_len |-> MIN_BODY_LENGTH, concurrency |-> <<"7">>],
     [subject_len |-> 0, body_len |-> MIN_BODY_LENGTH, concurrency |-> <<"7">>]}

NoPost ==
    [fd |-> [addresses |-> <<>>, block_disposable |-> {}, deduplicate |-> {}],
     valid |-> FALSE, before |-> <<>>, after |-> <<>>, flash |-> "none"]
NoDelete == [pc |-> "idle", index |-> 0, removed |-> <<>>, before |-> <<>>]
WebIdle ==
    /\ del_req = NoDelete
    /\ post_log = NoPost
    /\ nreq = 0

\* A request to /compose arrives (POST).
ComposeRequest ==
    /\ form_pc \in {"idle", "redirected", "invalid", "not_configured", "dispatched"}
    /\ nreq < MaxRequests
    /\ nreq' = nreq + 1
    /\ formdata' \in WebForms
    /\ form' = NewForm
    /\ engine_arg' = <<>>
    /\ engine_recipients' = <<>>
    /\ form_pc' = "request"
    /\ UNCHANGED <<RECEIVER_EMAILS, smtp, del_req, post_log>>
    /\ UNCHANGED <<engine_vars, text_vars, auth_vars>>

\* recipients, POST: validate, flatten, merge, persist; persisted tells
\* whether _persist_recipients succeeded, which only the flash message shows.
RecipientsPost(fd, persisted) ==
    /\ nreq < MaxRequests
    /\ nreq' = nreq + 1
    /\ LET f == RecipientForm(fd)
           after == merge_recipients(RECEIVER_EMAILS, RecipientsAdded(f))
       IN  /\ RECEIVER_EMAILS' = after
           /\ post_log' = [fd |-> fd,
                           valid |-> RecipientFormValidate(f),
                           before |-> RECEIVER_EMAILS,
                           after |-> after,
                           flash |-> IF ~RecipientFormValidate(f) THEN "danger"
                                     ELSE IF Len(after) = Len(RECEIVER_EMAILS) THEN "info"
                                     ELSE IF persisted THEN "success" ELSE "warning"]
    /\ UNCHANGED <<smtp, formdata, form, form_pc, engine_arg, engine_recipients, del_req>>
    /\ UNCHANGED <<engine_vars, text_vars, auth_vars>>

\* delete_recipient(index), up to the call of _persist_recipients: an index
\* in range is popped, any other index leaves the list alone.
DeletePop(index) ==
    /\ del_req.pc = "idle"
    /\ nreq < MaxRequests
    /\ nreq' = nreq + 1
    /\ IF 0 <= index /\ index < Len(RECEIVER_EMAILS)
       THEN /\ RECEIVER_EMAILS' = RemoveAt(RECEIVER_EMAILS, index + 1)
            /\ del_req' = [pc |-> "popped", index |-> index,
                           removed |-> RECEIVER_EMAILS[index + 1],
                           before |-> RECEIVER_EMAILS]
       ELSE UNCHANGED <<RECEIVER_EMAILS, del_req>>
    /\ UNCHANGED <<smtp, formdata, form, form_pc, engine_arg, engine_recipients, post_log>>
    /\ UNCHANGED <<engine_vars, text_vars, auth_vars>>

\* delete_recipient, _persist_recipients has returned: on failure the
\* removed address is inserted again at the index it was taken from.
DeletePersisted(persisted) ==
    /\ del_req.pc = "popped"
    /\ RECEIVER_EMAILS' = IF persisted THEN RECEIVER_EMAILS
                          ELSE InsertAt(RECEIVER_EMAILS, del_req.index, del_req.removed)
    /\ del_req' = NoDelete
    /\ UNCHANGED <<smtp, formdata, form, form_pc, engine_arg, engine_recipients,
                   post_log, nreq>>
    /\ UNCHANGED <<engine_vars, text_vars, auth_vars>>

\* clear_recipients: the list is emptied whatever _persist_recipients returns.
ClearRecipients ==
    /\ nreq < MaxRequests
    /\ nreq' = nreq + 1
    /\ RECEIVER_EMAILS' = <<>>
    /\ UNCHANGED <<smtp, formdata, form, form_pc, engine_arg, engine_recipients,
                   del_req, post_log>>
    /\ UNCHANGED <<engine_vars, text_vars, auth_vars>>

\* ------------------------------- compose around the call of the engine
\* Variant: an exception of send_bulk_email is swallowed.
ComposeFlash_Swallow(outcome, exc) == "success"

\* compose: the message flashed once send_bulk_email is back: the success
\* message if it returned; if it raised, the branch taken on the text of the
\* exception (535 / BadCredentials / not accepted, or any other text).
ComposeFlash(outcome, exc) ==
    IF outcome = "returned" THEN "success"
    ELSE IF exc = "auth535" THEN "auth_failed"
    ELSE "send_error"

\* compose calls send_bulk_email, which runs BulkMailer().send_blocking on
\* the list and the concurrency it was given; what the transport will do
\* for each recipient is open.
SendBulkEmail ==
    /\ form_pc = "dispatched" /\ control = "caller" /\ phase = "idle"
    /\ form_pc' = "sending"
    /\ recipients' = engine_recipients[1]
    /\ concurrency' = engine_arg
    /\ has_hook' = FALSE
    /\ mode' = "blocking"
    /\ transport' \in [1..Len(engine_recipients[1]) -> Outcomes]
    /\ wstate' = [i \in 1..Len(engine_recipients[1]) |-> "created"]
    /\ cancel_req' = [i \in 1..Len(engine_recipients[1]) |-> FALSE]
    /\ send_calls' = [i \in 1..Len(engine_recipients[1]) |-> 0]
    /\ auth_logged' = [i \in 1..Len(engine_recipients[1]) |-> FALSE]
    /\ control' = "engine"
    /\ UNCHANGED <<limit, sem_value, sem_waiters, ready, ntodo, stopping, phase,
                   gather, main_pc, hook_calls>>
    /\ UNCHANGED <<RECEIVER_EMAILS, smtp, formdata, form, engine_arg, engine_recipients>>
    /\ UNCHANGED <<text_vars, web_vars, auth_vars>>

\* compose, send_bulk_email is back: the success message if it returned,
\* "except Exception" and one of the error messages if it raised.
ComposeReport ==
    /\ form_pc = "sending" /\ control = "caller" /\ phase = "closed"
    /\ form_pc' = ComposeFlash(main_pc, gather.exc)
    /\ UNCHANGED <<RECEIVER_EMAILS, smtp, formdata, form, engine_arg, engine_recipients>>
    /\ UNCHANGED <<engine_vars, text_vars, web_vars, auth_vars>>

\* The compose forms posted when the broadcast is followed to its end.
DashForms ==
    {[subject_len |-> MIN_SUBJECT_LENGTH, body_len |-> MIN_BODY_LENGTH, concurrency |-> c] :
        c \in {<<"1">>, <<"2">>}}
    \cup {[subject_len |-> 0, body_len |-> MIN_BODY_LENGTH, concurrency |-> <<"1">>]}

\* ---------------------- src/webapp/app.py: login, session, rate limiting
SESSION_LIFETIME == 3600
MAX_LOGIN_ATTEMPTS == 5
RATE_LIMIT_WINDOW == 300
MIN_USERNAME_LENGTH == 3
MAX_USERNAME_LENGTH == 100
MIN_PASSWORD_LENGTH == 6
MAX_PASSWORD_LENGTH == 128

\* The one client IP followed; login_attempts and streak are keyed by IP.
CLIENT_IP == "127.0.0.1"
IPs == {CLIENT_IP}

NoSession == [logged_in |-> FALSE, login_time |-> -1]
NoAttempts == [count |-> 0, first_attempt |-> -1]

\* Variant: the age of the session is not looked at.
is_logged_in_NoExpiry(s, t) == s.logged_in

\* is_logged_in: the flag is set and, when login_time is there, no more than
\* SESSION_LIFETIME seconds have passed since.
is_logged_in(s, t) ==
    /\ s.logged_in
    /\ ~(s.login_time >= 0 /\ t - s.login_time > SESSION_LIFETIME)

\* is_logged_in clears a session it finds expired; before_request runs it
\* on every request.
SessionAfterCheck(s, t) ==
    IF s.logged_in /\ ~is_logged_in(s, t) THEN NoSession ELSE s

\* clean_old_attempts: entries whose first attempt is more than
\* RATE_LIMIT_WINDOW seconds old are deleted.
clean_old_attempts(la, t) ==
    [ip \in IPs |-> IF la[ip].count > 0 /\ t - la[ip].first_attempt > RATE_LIMIT_WINDOW
                    THEN NoAttempts ELSE la[ip]]

\* is_rate_limited: the value returned ...
is_rate_limited(la, t, ip) ==
    LET c == clean_old_attempts(la, t)
    IN  /\ c[ip].count > 0
        /\ c[ip].count >= MAX_LOGIN_ATTEMPTS
        /\ t - c[ip].first_attempt < RATE_LIMIT_WINDOW

\* ... and login_attempts as the call leaves it: a full entry whose window
\* has passed is deleted.
AttemptsAfterCheck(la, t, ip) ==
    LET c == clean_old_attempts(la, t)
    IN  IF /\ c[ip].count > 0
           /\ c[ip].count >= MAX_LOGIN_ATTEMPTS
           /\ ~(t - c[ip].first_attempt < RATE_LIMIT_WINDOW)
        THEN [c EXCEPT ![ip] = NoAttempts]
        ELSE c

record_failed_attempt(la, t, ip) ==
    IF la[ip].count = 0
    THEN [la EXCEPT ![ip] = [count |-> 1, first_attempt |-> t]]
    ELSE [la EXCEPT ![ip].count = @ + 1]

clear_failed_attempts(la, ip) == [la EXCEPT ![ip] = NoAttempts]

\* LoginForm: both fields are sanitised, then validate() looks at lengths.
LoginForm(fd) ==
    [username |-> sanitize_input(fd.username, MAX_USERNAME_LENGTH),
     password |-> sanitize_input(fd.password, MAX_PASSWORD_LENGTH)]

\* LoginForm.validate: no error on either field.
LoginFormValidate(f) ==
    /\ f.username # <<>>
    /\ ~(Len(f.username) < MIN_USERNAME_LENGTH)
    /\ ~(Len(f.username) > MAX_USERNAME_LENGTH)
    /\ f.password # <<>>
    /\ ~(Len(f.password) < MIN_PASSWORD_LENGTH)
    /\ ~(Len(f.password) > MAX_PASSWORD_LENGTH)

\* login: the comparison of the stripped fields with the configuration.
CredentialsMatch(f, cfg) ==
    /\ Strip(f.username) = cfg.username
    /\ Strip(f.password) = cfg.password

\* streak holds the failed logins of each IP counted as login_attempts
\* counts them, except that only a successful login or the passing of the
\* window starts the count again. Locked: the IP has MAX_LOGIN_ATTEMPTS of
\* them, the first less than RATE_LIMIT_WINDOW seconds ago.
Locked(st, t) == is_rate_limited(st, t, CLIENT_IP)
StreakAfterFailure(st, t) ==
    IF Locked(st, t)
    THEN AttemptsAfterCheck(st, t, CLIENT_IP)
    ELSE record_failed_attempt(AttemptsAfterCheck(st, t, CLIENT_IP), t, CLIENT_IP)

\* The routes requested, and those decorated with login_required.
Routes == {"dashboard", "recipients", "delete_recipient", "clear_recipients",
           "compose", "health"}
LoginRequired == {"dashboard", "recipients", "delete_recipient",
                  "clear_recipients", "compose"}
\* The routes whose view changes the recipient list or calls send_bulk_email.
Mutating == {"recipients", "delete_recipient", "clear_recipients", "compose"}

\* The configurations and the forms tried.
ADMIN == <<"a", "d", "m", "i", "n">>
SECRET == <<"s", "3", "c", "r", "e", "t", "!">>
LETMEIN == <<"l", "e", "t", "m", "e", "i", "n">>
AdminConfigs ==
    {[username |-> ADMIN, password |-> ADMIN],
     [username |-> ADMIN, password |-> SECRET],
     [username |-> <<"m", "e">>, password |-> SECRET]}
LoginPosts ==
    {[username |-> admin.username, password |-> admin.password],
     [username |-> <<" ">> \o admin.username, password |-> admin.password \o <<"\n">>],
     [username |-> admin.username, password |-> LETMEIN],
     [username |-> admin.username, password |-> <<"x">>]}
\* The steps of the clock: a second, and what brings it next to the limits.
Jumps == {1, RATE_LIMIT_WINDOW - 1, SESSION_LIFETIME - 1}

NoLogin == [method |-> "none", result |-> "none"]
NoRequest == [route |-> "none", ran |-> FALSE]
AuthIdle ==
    /\ admin = [username |-> ADMIN, password |-> SECRET]
    /\ now = 0
    /\ session = NoSession
    /\ login_attempts = [ip \in IPs |-> NoAttempts]
    /\ login_log = NoLogin
    /\ handled = NoRequest
    /\ granted = -1
    /\ streak = [ip \in IPs |-> NoAttempts]
    /\ nticks = 0

AuthRest == UNCHANGED <<engine_vars, form_vars, text_vars, web_vars, admin>>

\* Time passes.
Tick(d) ==
    /\ nticks < MaxTicks
    /\ nticks' = nticks + 1
    /\ now' = now + d
    /\ UNCHANGED <<session, login_attempts, login_log, handled, granted, streak>>
    /\ AuthRest

\* GET /login.
LoginGet ==
    /\ session' = SessionAfterCheck(session, now)
    /\ IF is_logged_in(session, now)
       THEN /\ login_log' = [method |-> "GET", result |-> "redirect"]
            /\ UNCHANGED login_attempts
       ELSE /\ login_attempts' = clear_failed_attempts(login_attempts, CLIENT_IP)
            /\ login_log' = [method |-> "GET", result |-> "form"]
    /\ UNCHANGED <<now, handled, granted, streak, nticks>>
    /\ AuthRest

\* POST /login with the form fd.
LoginPost(fd) ==
    LET f == LoginForm(fd)
        limited == is_rate_limited(login_attempts, now, CLIENT_IP)
        checked == AttemptsAfterCheck(login_attempts, now, CLIENT_IP)
        log == [method |-> "POST", result |-> "none"]
    IN  /\ IF is_logged_in(session, now)
           THEN /\ login_log' = [log EXCEPT !.result = "redirect"]
                /\ UNCHANGED <<session, login_attempts, granted, streak>>
           ELSE IF limited
           THEN /\ login_log' = [log EXCEPT !.result = "rate_limited"]
                /\ session' = SessionAfterCheck(session, now)
                /\ login_attempts' = checked
                /\ streak' = AttemptsAfterCheck(streak, now, CLIENT_IP)
                /\ UNCHANGED granted
           ELSE IF ~LoginFormValidate(f)
           THEN /\ login_log' = [log EXCEPT !.result = "invalid"]
                /\ session' = SessionAfterCheck(session, now)
                /\ login_attempts' = checked
                /\ streak' = AttemptsAfterCheck(streak, now, CLIENT_IP)
                /\ UNCHANGED granted
           ELSE IF CredentialsMatch(f, admin)
           THEN /\ login_log' = [log EXCEPT !.result = "success"]
                /\ session' = [logged_in |-> TRUE, login_time |-> now]
                /\ login_attempts' = clear_failed_attempts(checked, CLIENT_IP)
                /\ granted' = now
                /\ streak' = [streak EXCEPT ![CLIENT_IP] = NoAttempts]
           ELSE /\ login_log' = [log EXCEPT !.result = "failed"]
                /\ session' = SessionAfterCheck(session, now)
                /\ login_attempts' = record_failed_attempt(checked, now, CLIENT_IP)
                /\ streak' = StreakAfterFailure(streak, now)
                /\ UNCHANGED granted
        /\ UNCHANGED <<now, handled, nticks>>
        /\ AuthRest

\* GET /reset-login-attempts: no login is asked for.
ResetLoginAttempts ==
    /\ session' = SessionAfterCheck(session, now)
    /\ login_attempts' = clear_failed_attempts(login_attempts, CLIENT_IP)
    /\ UNCHANGED <<now, login_log, handled, granted, streak, nticks>>
    /\ AuthRest

\* GET /logout, behind login_required.
Logout ==
    /\ IF is_logged_in(session, now)
       THEN session' = NoSession /\ granted' = -1
       ELSE session' = SessionAfterCheck(session, now) /\ UNCHANGED granted
    /\ UNCHANGED <<now, login_attempts, login_log, handled, streak, nticks>>
    /\ AuthRest

\* A request to another route: login_required sends it to /login unless
\* is_logged_in, otherwise the view runs.
Request(route) ==
    /\ session' = SessionAfterCheck(session, now)
    /\ handled' = [route |-> route,
                   ran |-> (route \in LoginRequired => is_logged_in(session, now))]
    /\ UNCHANGED <<now, login_attempts, login_log, granted, streak, nticks>>
    /\ AuthRest

\* ------------------------------------------------------- the specification
FormIdle ==
    /\ RECEIVER_EMAILS = <<>>
    /\ smtp = [username |-> YOUR_EMAIL \o <<"@", "g", "m", "a", "i", "l", ".", "c", "o", "m">>, password |-> YOUR_APP_PASSWORD]
    /\ formdata = [subject_len |-> 0, body_len |-> 0, concurrency |-> <<>>]
    /\ form = NewForm
    /\ form_pc = "idle"
    /\ engine_arg = <<>>
    /\ engine_recipients = <<>>

EngineStart ==
    /\ limit = 0
    /\ sem_value = 0
    /\ sem_waiters = <<>>
    /\ wstate = [i \in Workers |-> "created"]
    /\ cancel_req = [i \in Workers |-> FALSE]
    /\ ready = <<>>
    /\ ntodo = 0
    /\ stopping = FALSE
    /\ phase = "idle"
    /\ gather = [state |-> "pending", nfinished |-> 0, exc |-> "none"]
    /\ main_pc = "init"
    /\ control = "engine"
    /\ send_calls = [i \in Workers |-> 0]
    /\ hook_calls = <<>>
    /\ auth_logged = [i \in Workers |-> FALSE]

Init ==
    /\ recipients \in {SubSeq(Addresses, 1, n) : n \in 0..MaxRecipients}
    /\ concurrency \in ConcurrencyArgs
    /\ has_hook \in BOOLEAN
    /\ mode \in {"blocking", "async"}
    /\ transport \in [Workers -> Outcomes]
    /\ EngineStart
    /\ FormIdle
    /\ TextIdle
    /\ WebIdle
    /\ AuthIdle

Next ==
    \/ SendAsync
    \/ RunOnce
    \/ \E i \in Workers : WorkerStart(i)
    \/ \E i \in Workers : WorkerAdmitted(i)
    \/ \E i \in Workers : WorkerSendDone(i)
    \/ \E i \in Workers : WorkerCancelled(i)
    \/ \E i \in Workers : GatherDone(i)
    \/ MainResume
    \/ LoopStop
    \/ CancelAllTasks
    \/ LoopClose

Spec == Init /\ [][Next]_vars

\* The same engine on a loop that keeps taking steps: a callback that is
\* ready is run, and a transport call in progress ends (aiosmtplib.send is
\* called with timeout=30). send_blocking is followed without a hook, with
\* the default gate and with gates of one and two.
InitLive ==
    /\ recipients \in {SubSeq(Addresses, 1, n) : n \in 0..MaxRecipients}
    /\ concurrency \in {<<>>, <<1>>, <<2>>}
    /\ has_hook = FALSE
    /\ mode = "blocking"
    /\ transport \in [Workers -> Outcomes]
    /\ EngineStart
    /\ FormIdle
    /\ TextIdle
    /\ WebIdle
    /\ AuthIdle

SpecLive == InitLive /\ [][Next]_vars /\ WF_vars(Next)

\* The compose route alone: one POST of a form, the engine not yet running.
InitForm ==
    /\ RECEIVER_EMAILS \in {<<>>, <<A_AT_X>>, <<A_AT_X, B_AT_X>>}
    /\ smtp \in [username : SmtpUsernames, password : SmtpPasswords]
    /\ formdata \in [subject_len : {0, 2, 3}, body_len : {0, 9, 10},
                      concurrency : ConcurrencyFields]
    /\ form = NewForm
    /\ form_pc = "request"
    /\ engine_arg = <<>>
    /\ engine_recipients = <<>>
    /\ recipients = <<>>
    /\ concurrency = <<>>
    /\ has_hook = FALSE
    /\ mode = "blocking"
    /\ transport = <<>>
    /\ EngineStart
    /\ TextIdle
    /\ WebIdle
    /\ AuthIdle

NextForm ==
    \/ ComposeNoRecipients
    \/ ComposeHasRecipients
    \/ ComposeInvalid
    \/ ComposeNotConfigured
    \/ ComposeSend

SpecForm == InitForm /\ [][NextForm]_vars

\* The normalisation and validation functions alone, applied to one input.
InitText ==
    /\ txt_in \in
          {[NoInput EXCEPT !.kind = "text", !.text = t, !.deduplicate = d, !.joiner = j] :
              t \in Texts, d \in Flags, j \in Joiners}
          \cup {[NoInput EXCEPT !.kind = "email", !.email = e, !.block_disposable = b] :
                   e \in EmailTexts, b \in BOOLEAN}
    /\ txt_out = NoOutput
    /\ txt_pc = "input"
    /\ recipients = <<>>
    /\ concurrency = <<>>
    /\ has_hook = FALSE
    /\ mode = "blocking"
    /\ transport = <<>>
    /\ EngineStart
    /\ FormIdle
    /\ WebIdle
    /\ AuthIdle

NextText ==
    \/ Normalise
    \/ Renormalise
    \/ ValidateEmail

SpecText == InitText /\ [][NextText]_vars

\* The dashboard: compose and the recipient routes, requests handled by
\* threads that may interleave where a handler reads the request or writes
\* the recipients file.
InitWeb ==
    /\ RECEIVER_EMAILS \in {<<>>, <<A_AT_X>>, <<A_AT_X, B_AT_X>>}
    /\ smtp \in {[username |-> u, password |-> Rep("p", MIN_APP_PASSWORD_LENGTH)] :
                   u \in {YOUR_EMAIL, <<"m", "e", "@", "x", ".", "c", "o", "m">>}}
    /\ formdata = [subject_len |-> 0, body_len |-> 0, concurrency |-> <<>>]
    /\ form = NewForm
    /\ form_pc = "idle"
    /\ engine_arg = <<>>
    /\ engine_recipients = <<>>
    /\ recipients = <<>>
    /\ concurrency = <<>>
    /\ has_hook = FALSE
    /\ mode = "blocking"
    /\ transport = <<>>
    /\ EngineStart
    /\ TextIdle
    /\ WebIdle
    /\ AuthIdle

NextWeb ==
    \/ ComposeRequest
    \/ ComposeNoRecipients
    \/ ComposeHasRecipients
    \/ ComposeInvalid
    \/ ComposeNotConfigured
    \/ ComposeSend
    \/ \E fd \in RecipientPosts, persisted \in BOOLEAN : RecipientsPost(fd, persisted)
    \/ \E index \in 0..MaxIndex : DeletePop(index)
    \/ \E persisted \in BOOLEAN : DeletePersisted(persisted)
    \/ ClearRecipients

SpecWeb == InitWeb /\ [][NextWeb]_vars

\* One POST to /compose followed through the engine to the message shown.
InitDash ==
    /\ RECEIVER_EMAILS \in
           {[k \in 1..n |-> IF k = 1 THEN A_AT_X
                            ELSE IF k = 2 THEN B_AT_X
                            ELSE IF k = 3 THEN Lower(THROWAWAY)
                            ELSE Rep("d", k) \o AT_X_COM] : n \in 0..MaxRecipients}
    /\ smtp \in {[username |-> u, password |-> Rep("p", MIN_APP_PASSWORD_LENGTH)] :
                   u \in {YOUR_EMAIL, <<"m", "e", "@", "x", ".", "c", "o", "m">>}}
    /\ formdata \in DashForms
    /\ form = NewForm
    /\ form_pc = "request"
    /\ engine_arg = <<>>
    /\ engine_recipients = <<>>
    /\ recipients = <<>>
    /\ concurrency = <<>>
    /\ has_hook = FALSE
    /\ mode = "blocking"
    /\ transport = <<>>
    /\ limit = 0
    /\ sem_value = 0
    /\ sem_waiters = <<>>
    /\ wstate = <<>>
    /\ cancel_req = <<>>
    /\ ready = <<>>
    /\ ntodo = 0
    /\ stopping = FALSE
    /\ phase = "idle"
    /\ gather = [state |-> "pending", nfinished |-> 0, exc |-> "none"]
    /\ main_pc = "init"
    /\ control = "caller"
    /\ send_calls = <<>>
    /\ hook_calls = <<>>
    /\ auth_logged = <<>>
    /\ TextIdle
    /\ WebIdle
    /\ AuthIdle

NextDash ==
    \/ ComposeNoRecipients
    \/ ComposeHasRecipients
    \/ ComposeInvalid
    \/ ComposeNotConfigured
    \/ ComposeSend
    \/ SendBulkEmail
    \/ Next
    \/ ComposeReport

SpecDash == InitDash /\ [][NextDash]_vars

\* The login page, the session and the guarded routes, as time passes.
InitAuth ==
    /\ recipients = <<>>
    /\ concurrency = <<>>
    /\ has_hook = FALSE
    /\ mode = "blocking"
    /\ transport = <<>>
    /\ EngineStart
    /\ FormIdle
    /\ TextIdle
    /\ WebIdle
    /\ admin \in AdminConfigs
    /\ now = 0
    /\ session = NoSession
    /\ login_attempts = [ip \in IPs |-> NoAttempts]
    /\ login_log = NoLogin
    /\ handled = NoRequest
    /\ granted = -1
    /\ streak = [ip \in IPs |-> NoAttempts]
    /\ nticks = 0

NextAuth ==
    \/ \E d \in Jumps : Tick(d)
    \/ LoginGet
    \/ \E fd \in LoginPosts : LoginPost(fd)
    \/ ResetLoginAttempts
    \/ Logout
    \/ \E route \in Routes : Request(route)

SpecAuth == InitAuth /\ [][NextAuth]_vars


\* ------------------------------------------------------------- properties
AllDone == \A i \in Workers : Done(i)
InTransport == {i \in Workers : wstate[i] = "transport"}
Succeeded == {i \in Workers : wstate[i] = "sent"}
Failed == {i \in Workers : wstate[i] = "failed"}
Failing == {i \in Workers : transport[i] # "ok"}
Started == phase # "idle"
Count(seq, x) == Cardinality({k \in 1..Len(seq) : seq[k] = x})
Clamp(lo, hi, v) == Max(lo, Min(hi, v))

\* C1: when the transport fails for exactly one recipient, no other
\* recipient's attempt is cancelled or skipped: once the run is over each of
\* them had exactly one transport call.
C1_NoEarlyExit ==
    Cardinality(Failing) = 1 =>
        \A i \in Workers \ Failing :
            /\ wstate[i] # "cancelled"
            /\ AllDone => send_calls[i] = 1

\* C2: the caller gets control back only when every attempt is sent or failed.
C2_ReturnsAfterAllTerminal ==
    control = "caller" => \A i \in Workers : wstate[i] \in {"sent", "failed"}

\* C3: the number of attempts holding a gate slot (inside the transport call)
\* never exceeds the effective limit.
C3_ConcurrencyBound ==
    Started => Cardinality(InTransport) <= limit

C3_Witness ==
    /\ limit = 2 /\ N = 3
    /\ Cardinality(InTransport) = 2
    /\ \E i \in Workers : wstate[i] = "waiting"

\* C4: the call ends by returning an outcome that accounts for every
\* recipient as succeeded or failed; failures are not raised.
C4_OutcomeNotRaised ==
    control = "caller" =>
        /\ main_pc = "returned"
        /\ Cardinality(Succeeded) + Cardinality(Failed) = N

\* C5: when every transport call is rejected with 535, every recipient is
\* attempted and every attempt ends classified as an authentication failure.
C5_AuthFailureEveryAttempt ==
    ((\A i \in Workers : transport[i] = "auth535") /\ AllDone) =>
        /\ Succeeded = {}
        /\ \A i \in Workers : send_calls[i] = 1 /\ wstate[i] = "failed" /\ auth_logged[i]

\* C6: the transport is called exactly once for an attempt that went through
\* the gate, never for one that did not, and never twice for a recipient.
C6_ExactlyOneTransportCall ==
    \A i \in Workers :
        /\ send_calls[i] <= 1
        /\ wstate[i] \in {"transport", "sent", "failed"} => send_calls[i] = 1
        /\ wstate[i] \in {"created", "waiting"} => send_calls[i] = 0

C6_Witness ==
    /\ AllDone /\ N >= 2
    /\ \E i \in Workers : transport[i] = "timeout" /\ wstate[i] = "failed" /\ send_calls[i] = 1
    /\ \E i \in Workers : wstate[i] = "sent" /\ send_calls[i] = 1

\* C7: the progress hook is called once for each recipient whose send
\* succeeded and never for another; the calls number the successful sends.
C7_HookOncePerSuccess ==
    /\ \A i \in Workers :
          Count(hook_calls, recipients[i]) = IF has_hook /\ wstate[i] = "sent" THEN 1 ELSE 0
    /\ has_hook => Len(hook_calls) = Cardinality(Succeeded)

C7_Witness ==
    /\ has_hook /\ AllDone
    /\ Failed # {} /\ Cardinality(Succeeded) >= 2
    /\ Len(hook_calls) = Cardinality(Succeeded)

\* C8: with limit 1 and a transport that always succeeds the broadcast runs
\* in input order: a recipient is in transport only after all earlier ones
\* were sent and reported, and the hook sees a prefix of the input.
C8_SerialisedInInputOrder ==
    (Started /\ limit = 1 /\ Failing = {}) =>
        /\ Cardinality(InTransport) <= 1
        /\ \A i \in Workers : wstate[i] \in {"transport", "sent"} =>
              \A j \in 1..(i - 1) :
                  /\ wstate[j] = "sent"
                  /\ has_hook => (Len(hook_calls) >= j /\ hook_calls[j] = recipients[j])
        /\ has_hook => (/\ Len(hook_calls) <= N
                        /\ hook_calls = SubSeq(recipients, 1, Len(hook_calls)))

C8_Witness ==
    /\ limit = 1 /\ Failing = {} /\ has_hook
    /\ N = 3 /\ control = "caller"
    /\ hook_calls = recipients

\* C9: for an integer concurrency argument c the gate size is max(1, c).
C9_ClampToOne ==
    (Started /\ concurrency # <<>>) => limit = Max(1, concurrency[1])

\* C10 as stated: after validate the concurrency is the submitted value
\* clamped to [1, 500], or 50 when the field is absent or not an integer.
Answered == form_pc \in {"invalid", "not_configured", "dispatched"}
C10_SubmittedValueClamped ==
    Answered =>
        form.concurrency =
            IF Strip(formdata.concurrency) = <<>> THEN FORM_DEFAULT_CONCURRENCY
            ELSE IF IsInt(formdata.concurrency)
            THEN Clamp(MIN_CONCURRENCY, MAX_CONCURRENCY, IntValue(formdata.concurrency))
            ELSE FORM_DEFAULT_CONCURRENCY

\* C10 amended: after validate the concurrency lies in [1, 500]; it is the
\* integer read from the submitted text trimmed and cut to its first 10
\* characters, clamped to [1, 500], or 50 when that text is empty or not an
\* integer; compose passes the engine no limit outside [1, 500].
C10_TruncatedValueClamped ==
    /\ Answered =>
          LET t == SubSeq(Strip(formdata.concurrency), 1,
                          Min(CONCURRENCY_MAX_LENGTH, Len(Strip(formdata.concurrency))))
          IN  /\ form.concurrency \in MIN_CONCURRENCY..MAX_CONCURRENCY
              /\ form.concurrency =
                    IF t = <<>> \/ ~IsInt(t) THEN FORM_DEFAULT_CONCURRENCY
                    ELSE Clamp(MIN_CONCURRENCY, MAX_CONCURRENCY, IntValue(t))
    /\ engine_arg # <<>> =>
          /\ engine_arg[1] \in MIN_CONCURRENCY..MAX_CONCURRENCY
          /\ Limit(engine_arg) = engine_arg[1]

C10_Witness ==
    /\ form_pc = "dispatched"
    /\ Len(formdata.concurrency) > CONCURRENCY_MAX_LENGTH
    /\ engine_arg = <<10>>

\* C19: send_async with no recipients completes at once, without a transport
\* call, a worker task or a progress hook call.
C19_EmptyBroadcast ==
    (Started /\ N = 0) =>
        /\ main_pc = "returned"
        /\ hook_calls = <<>>
        /\ \A k \in 1..Len(ready) : ready[k].cb \notin {"step", "gather_done", "main"}
        /\ mode = "async" => control = "caller"

C19_Witness ==
    /\ N = 0 /\ has_hook
    /\ control = "caller" /\ main_pc = "returned"
    /\ mode = "blocking" /\ phase = "closed"

\* C20: an exception of a single attempt, whatever its kind, leaves send_async
\* as the failure of the whole call: the call returns normally only when
\* every attempt was sent, and once the caller has control the call has
\* raised exactly when some transport call fails.
C20_FailurePropagates ==
    /\ main_pc = "returned" => \A i \in Workers : wstate[i] = "sent"
    /\ main_pc = "raised" => \E i \in Workers : wstate[i] = "failed"
    /\ control = "caller" => (main_pc = "raised" <=> Failing # {})

C20_Witness ==
    /\ control = "caller" /\ main_pc = "raised"
    /\ N = 3
    /\ \E i \in Workers : /\ transport[i] = "unknown" /\ wstate[i] = "failed"
                          /\ Failing = {i}

\* ---------------------------------------- properties of the address lists
Deduplicating == FieldBool(txt_in.deduplicate)
NormalisedOnce == txt_pc \in {"normalised", "renormalised"}

\* The trimmed, lower-cased, non-empty tokens of a text, in input order.
NormTokens(text) ==
    LET raw == Split(text)
    IN  SelectSeq([k \in 1..Len(raw) |-> Lower(Strip(raw[k]))], LAMBDA t : t # <<>>)
FirstIndex(seq, x) == CHOOSE k \in 1..Len(seq) : seq[k] = x /\ \A j \in 1..(k - 1) : seq[j] # x

\* out holds every distinct entry of toks once, in the order of first occurrence.
KeepsFirst(toks, out) ==
    /\ Range(out) = Range(toks)
    /\ \A i, j \in 1..Len(out) : i # j => out[i] # out[j]
    /\ \A i, j \in 1..Len(out) : i < j => FirstIndex(toks, out[i]) < FirstIndex(toks, out[j])

BothSpellings(text) == {A_AT_X, UPPER_A_AT_X} \subseteq Range(Split(text))

\* C16 (as stated, refuted for parse_email_list): with deduplication on, both
\* flatten_addresses and parse_email_list return each distinct trimmed,
\* lower-cased token once, at its first occurrence, in input order.
C16_EveryTokenOnce ==
    (NormalisedOnce /\ Deduplicating) =>
        /\ KeepsFirst(NormTokens(txt_in.text), txt_out.flat)
        /\ KeepsFirst(NormTokens(txt_in.text), txt_out.parsed)

\* C16: with deduplication on, flatten_addresses returns each distinct trimmed,
\* lower-cased token once, at its first occurrence, in input order;
\* parse_email_list does so for the tokens that match EMAIL_RE and drops the
\* others; a text holding a@x.com and A@X.com yields one entry a@x.com.
C16_DistinctTokensOnce ==
    (NormalisedOnce /\ Deduplicating) =>
        /\ KeepsFirst(NormTokens(txt_in.text), txt_out.flat)
        /\ KeepsFirst(SelectSeq(NormTokens(txt_in.text), validate_email_address),
                      txt_out.parsed)
        /\ BothSpellings(txt_in.text) =>
               /\ Count(txt_out.flat, A_AT_X) = 1
               /\ Count(txt_out.parsed, A_AT_X) = 1
C16_Witness ==
    /\ txt_pc = "normalised" /\ Deduplicating
    /\ BothSpellings(txt_in.text)
    /\ txt_in.text[Len(txt_in.text)] = " "
    /\ NormTokens(txt_in.text) = <<A_AT_X, NOT_AN_EMAIL, A_AT_X>>
    /\ txt_out.flat = <<A_AT_X, NOT_AN_EMAIL>>
    /\ txt_out.parsed = <<A_AT_X>>

\* The defects of an address named by the address rules.
AtSigns(e) == {k \in 1..Len(e) : e[k] = "@"}
AfterLastAt(e) == SubSeq(e, Max(1, CHOOSE k \in AtSigns(e) : \A j \in AtSigns(e) : j <= k) + 1, Len(e))
Defective(e) ==
    \/ Len(e) > MAX_EMAIL_LENGTH
    \/ Cardinality(AtSigns(e)) > 1
    \/ AtSigns(e) = {}
    \/ 1 \in AtSigns(e)
    \/ Len(e) \in AtSigns(e)
    \/ "." \notin Range(AfterLastAt(e))
    \/ \E k \in 1..(Len(e) - 1) : e[k] = "." /\ e[k + 1] = "."

\* C17: validate_email answers (False, reason) with a reason for every
\* address with an empty local part or domain, more than one "@", a domain
\* without a dot, consecutive dots or more than 254 characters, and answers
\* (True, None) only for an address with none of these defects.
C17_DefectsRejected ==
    txt_pc = "validated" =>
        /\ Defective(txt_in.email) => (~txt_out.valid /\ txt_out.reason \notin {None, ""})
        /\ txt_out.valid => (txt_out.reason = None /\ ~Defective(txt_in.email))
        /\ (txt_in.email \in {NOT_AN_EMAIL, DOUBLE_AT, DOUBLE_DOT}
            \/ Len(txt_in.email) = MAX_EMAIL_LENGTH + 1) => ~txt_out.valid
C17_Witness ==
    /\ txt_pc = "validated"
    /\ txt_in.email = DOUBLE_DOT
    /\ ~txt_out.valid
    /\ txt_out.reason = "Consecutive dots not allowed"

\* C18: the output of flatten_addresses or parse_email_list, joined into a
\* text and normalised again, is the same sequence of addresses, with
\* deduplication on or off.
C18_Idempotent ==
    txt_pc = "renormalised" =>
        /\ txt_out.flat2 = txt_out.flat
        /\ txt_out.parsed2 = txt_out.parsed
C18_Witness ==
    /\ txt_pc = "renormalised" /\ ~Deduplicating
    /\ NormTokens(txt_in.text) = <<A_AT_X, B_AT_X, A_AT_X>>
    /\ UPPER_A_AT_X \in Range(Split(txt_in.text))
    /\ txt_out.flat2 = <<A_AT_X, B_AT_X, A_AT_X>>
    /\ txt_out.parsed2 = txt_out.flat2

\* ------------------------------------------- properties of the dashboard
Handed == engine_recipients # <<>>
Posted == post_log.flash # "none"

\* C11: every address of the list that compose hands to send_bulk_email passes
\* validate_email (the tests every form applies), whatever add, delete and
\* clear requests came before; the engine gets the list as it is.
C11_BoundaryGate ==
    Handed =>
        \A k \in 1..Len(engine_recipients[1]) :
            validate_email(engine_recipients[1][k], FALSE).valid
C11_Witness ==
    /\ Handed
    /\ Lower(THROWAWAY) \in Range(engine_recipients[1])
    /\ A_AT_X \in Range(engine_recipients[1])
    /\ post_log.flash = "danger"

\* C12: the recipient list never holds two entries that are equal after
\* trimming and lower-casing.
C12_NoDuplicates ==
    \A i, j \in 1..Len(RECEIVER_EMAILS) :
        i # j => Strip(Lower(RECEIVER_EMAILS[i])) # Strip(Lower(RECEIVER_EMAILS[j]))

\* C13: a submission with a token that fails validate_email makes validate
\* return False and adds no address: the list is as it was before the request.
HasInvalidToken(fd) ==
    \E k \in 1..Len(NormTokens(fd.addresses)) :
        ~validate_email(NormTokens(fd.addresses)[k], FieldBool(fd.block_disposable)).valid
C13_InvalidAddsNone ==
    (Posted /\ HasInvalidToken(post_log.fd)) =>
        /\ ~post_log.valid
        /\ post_log.after = post_log.before
        /\ post_log.flash = "danger"
C13_Witness ==
    /\ Posted
    /\ NormTokens(post_log.fd.addresses) = <<B_AT_X, NOT_AN_EMAIL>>
    /\ post_log.before = <<A_AT_X>>
    /\ post_log.after = <<A_AT_X>>
    /\ RECEIVER_EMAILS = <<A_AT_X>>

\* C14: send_bulk_email is never called with an empty recipient list, also
\* when a clear or delete request is handled while a compose request is.
C14_NeverEmptyList ==
    Handed => engine_recipients[1] # <<>>

\* C15: compose does not call send_bulk_email while the SMTP username holds
\* your_email or no "@", or the password holds your_app_password or has
\* fewer than 16 characters; a valid form is then answered "not configured".
PlaceholderSettings ==
    \/ Contains(smtp.username, YOUR_EMAIL)
    \/ "@" \notin Range(smtp.username)
    \/ Contains(smtp.password, YOUR_APP_PASSWORD)
    \/ Len(smtp.password) < MIN_APP_PASSWORD_LENGTH
C15_NoDispatchOnPlaceholder ==
    PlaceholderSettings =>
        /\ form_pc # "dispatched"
        /\ engine_arg = <<>> /\ engine_recipients = <<>>
        /\ (Answered /\ form.errors = {}) => form_pc = "not_configured"
C15_Witness ==
    /\ form_pc = "not_configured"
    /\ form.errors = {}
    /\ ~UsernamePlaceholder(smtp.username)
    /\ smtp.password = Rep("p", MIN_APP_PASSWORD_LENGTH - 1)
    /\ RECEIVER_EMAILS # <<>>
    /\ engine_arg = <<>>

\* ------------------------------------------------ properties of the gate
\* An attempt holds a slot from the moment the gate gives it one (at once, or
\* by waking it from the queue) until it leaves "async with semaphore".
SlotGiven(i) ==
    /\ wstate[i] = "waiting"
    /\ \E k \in 1..Len(sem_waiters) : sem_waiters[k].task = i /\ sem_waiters[k].fut = "result"
Holding == {i \in Workers : wstate[i] = "transport" \/ SlotGiven(i)}
Acquired(i) == send_calls[i] >= 1 \/ SlotGiven(i)

\* C21: every attempt that got a slot gives it back however it ends: the free
\* slots stay within 0..L, free slots plus attempts holding one make L, and
\* with no attempt holding one all L slots are free.
C21_SlotsConserved ==
    Started =>
        /\ sem_value \in 0..limit
        /\ sem_value + Cardinality(Holding) = limit
        /\ Holding = {} => sem_value = limit
C21_Witness ==
    /\ Started /\ AllDone
    /\ limit = 1 /\ N = 3
    /\ wstate = <<"sent", "failed", "failed">>
    /\ transport = <<"ok", "timeout", "unknown">>
    /\ sem_value = limit

\* C22: slots are given in the order of the recipient sequence: an attempt
\* never has a slot before every attempt at an earlier position had one.
C22_AdmissionInInputOrder ==
    \A i, j \in Workers : (i < j /\ Acquired(j)) => Acquired(i)
C22_Witness ==
    /\ N = 3 /\ limit = 2
    /\ wstate = <<"transport", "sent", "transport">>
    /\ send_calls = <<1, 1, 1>>

\* C23: send_async eventually returns or raises and every slot is free again
\* for good; when every send succeeds every recipient is eventually sent.
C23_Terminates ==
    /\ <>(main_pc \in {"returned", "raised"})
    /\ <>[](Started /\ sem_value = limit /\ Holding = {})
    /\ (Failing = {}) => <>(\A i \in Workers : wstate[i] = "sent")
C23_Witness ==
    /\ N = 3 /\ limit = 1 /\ Failing = {}
    /\ main_pc = "returned" /\ control = "caller"
    /\ \A i \in Workers : wstate[i] = "sent" /\ send_calls[i] = 1
    /\ sem_value = limit

\* ----------------------------------- properties of the broadcast's report
\* C24: compose shows the success message only if every recipient's
\* transport call succeeded; if any attempt raised it shows an error, the
\* app-password guidance when the error raised is the 535 one.
C24_SuccessOnlyIfAllSent ==
    /\ form_pc = "success" => \A i \in Workers : transport[i] = "ok" /\ wstate[i] = "sent"
    /\ (form_pc \in {"success", "auth_failed", "send_error"} /\ Failing # {}) =>
           /\ form_pc # "success"
           /\ form_pc = "auth_failed" <=> gather.exc = "auth535"
    /\ form_pc = "auth_failed" => \E i \in Workers : auth_logged[i]
C24_Witness ==
    /\ form_pc = "auth_failed"
    /\ N = 3
    /\ transport = <<"ok", "ok", "auth535">>
    /\ wstate = <<"sent", "sent", "failed">>

\* ------------------------------------------ properties of delete_recipient
\* C27: when persisting fails in delete_recipient the rollback leaves the
\* list equal to what it was before the request, and a request with an index
\* out of range leaves the list as it is.
C27_RollbackRestores ==
    [][/\ DeletePersisted(FALSE) => RECEIVER_EMAILS' = del_req.before
       /\ \A index \in 0..MaxIndex :
              (DeletePop(index) /\ index >= Len(RECEIVER_EMAILS)) =>
                  RECEIVER_EMAILS' = RECEIVER_EMAILS]_vars

\* ------------------------------------- properties of login and the session
\* C25: a view that changes the recipient list or sends the broadcast runs
\* only for a client that has logged in, has not logged out since, and whose
\* login is no more than SESSION_LIFETIME seconds old.
C25_OnlyWhileLoggedIn ==
    [][\A route \in Mutating :
           (Request(route) /\ handled'.ran) =>
               (granted >= 0 /\ now - granted <= SESSION_LIFETIME)]_vars

\* A mutating view has just run on the last second of the session ...
C25_Witness ==
    /\ handled.route = "compose"
    /\ handled.ran
    /\ granted >= 0
    /\ now - granted = SESSION_LIFETIME

\* ... one has been turned away a second later ...
C25_WitnessExpired ==
    /\ handled.route = "recipients"
    /\ ~handled.ran
    /\ granted >= 0
    /\ now - granted = SESSION_LIFETIME + 1
    /\ session = NoSession

\* ... and one has been turned away after a logout.
C25_WitnessLogout ==
    /\ handled.route = "clear_recipients"
    /\ ~handled.ran
    /\ granted = -1
    /\ login_log.result = "success"

\* C26: while an IP has MAX_LOGIN_ATTEMPTS failed logins, the first of them
\* less than RATE_LIMIT_WINDOW seconds ago, a POST to /login from it does
\* not log in, whatever the IP has requested in between ...
C26_LockedOut ==
    [][\A fd \in LoginPosts :
           (LoginPost(fd) /\ Locked(streak, now)) =>
               login_log'.result # "success"]_vars

\* ... and is answered 429.
C26_Answered429 ==
    [][\A fd \in LoginPosts :
           (LoginPost(fd) /\ Locked(streak, now)) =>
               login_log'.result = "rate_limited"]_vars

\* C28: a POST to /login from an IP that is not rate limited, with the
\* configured username and password, leaves the client logged in.
C28_ConfiguredCredentialsLogIn ==
    [][\A fd \in LoginPosts :
           (/\ LoginPost(fd)
            /\ ~is_rate_limited(login_attempts, now, CLIENT_IP)
            /\ fd.username = admin.username
            /\ fd.password = admin.password) =>
               login_log'.result \in {"success", "redirect"}]_vars
====
